---- MODULE Spec2Model ----
(***************************************************************************)
(* State machine of the gemini-scribe transcription pipeline: the App      *)
(* component's run state (App.tsx, src/unnamed/part_004), the segmenter    *)
(* (src/utils/audioUtils.ts), the timestamp parser (utils/srtUtils.ts),    *)
(* the processing loop processChunks with its retry loop, and the          *)
(* transcription client transcribeChunk (src/services/geminiService.ts).   *)
(*                                                                         *)
(* Spec is the App as its UI drives it; SpecSignal adds the abort signal   *)
(* raised during a pass; SpecSegmenter runs the segmenter on recordings    *)
(* around its boundaries; SpecTranscribe follows one transcribeChunk call  *)
(* step by step, up to what processChunks does with its outcome;           *)
(* SpecTimestamps takes one result with offsets in either written form;    *)
(* SpecPass runs the passes of processChunks with every await resolving    *)
(* and counts their requests.                                              *)
(*                                                                         *)
(* Line times are whole seconds, audio lengths are samples.  A timestamp   *)
(* string "MM:SS" or "HH:MM:SS" is written as                              *)
(* the tuple of its ':'-separated numeric parts.  The transcription        *)
(* service is the environment: an attempt either throws (network error,    *)
(* empty or unparsable body) or returns a document of the shape the        *)
(* response schema demands, {lines, summary}, its lines in chronological   *)
(* order.  blobToBase64 reads an in-memory Blob and always resolves.       *)
(* Every action is one run-to-completion step of the JavaScript event      *)
(* loop: from one await (or one UI event) to the next await; a handler is  *)
(* enabled when the element it is bound to is rendered and not disabled.   *)
(* A request is one call of transcribeChunk.                               *)
(***************************************************************************)
EXTENDS Integers, Sequences, FiniteSets, TLC

VARIABLES
    file,               \* App state `file`: NoFile = null, else the recording
    description,        \* App state `description` is non-empty
    status,             \* App state `status` (ProcessingStatus)
    chunks,             \* App state `chunks`
    currentChunkIndex,  \* App state `currentChunkIndex`
    srtLines,           \* App state `srtLines`
    completed,          \* App state `completed`
    error,              \* App state `error` is non-null
    contextSummary,     \* App state `contextSummary`
    contextSummaryRef,  \* contextSummaryRef.current
    failedChunkIndex,   \* App state `failedChunkIndex` (NoIndex = null)
    abortCtl,           \* abortControllerRef.current: "null", "live", "aborted"
    pc,                 \* where the async call chain is suspended
    i,                  \* processChunks: loop variable i
    retries,            \* processChunks: retries
    currentSrtId,       \* processChunks: currentSrtId
    reqCtx,             \* previousSummary of the transcribeChunk call in flight
    hist,               \* history (observation only): see HistInit
    call                \* the transcribeChunk call, where its steps are
                        \* followed one by one: see NewCall

vars == << file, description, status, chunks, currentChunkIndex, srtLines,
           completed, error, contextSummary, contextSummaryRef,
           failedChunkIndex, abortCtl, pc, i, retries, currentSrtId, reqCtx,
           hist, call >>

appVars == << file, description, status, chunks, currentChunkIndex, srtLines,
              completed, error, contextSummary, contextSummaryRef,
              failedChunkIndex >>

-----------------------------------------------------------------------------
(* Bounds of the model *)

\* most lines in one service response
MaxLines == 2
\* most user edits of accumulated lines in one run
MaxLineEdits == 1
\* longest recording handed to the segmenter alone, in whole windows
MaxWindows == 2
\* how many frames around a boundary the segmenter's recordings go
MaxSkew == 2

-----------------------------------------------------------------------------
(* Program constants *)

TARGET_SAMPLE_RATE == 16000
CHUNK_DURATION_SEC == 600
OVERLAP_SEC == 10
NoIndex == -1

\* A picked file is what decodeAudioData makes of it: an AudioBuffer of
\* `frames` sample frames at the AudioContext's sample rate `rate`, its
\* duration frames / rate seconds.  NoFile is `null`.
NoFile == [frames |-> 0, rate |-> 0]

Recording(seconds, rate) == [frames |-> seconds * rate, rate |-> rate]

\* the recordings the user can pick: 450 s and 1530 s
Durations == {Recording(450, 48000), Recording(1530, 48000)}

\* sample rates an AudioContext decodes to
ContextRates == {16000, 44100, 48000}

\* the recordings handed to the segmenter alone: around every window
\* boundary, every end of an overlap tail and the middle of a window (the
\* 1530 s recording among them), to the frame
EdgeRecordings ==
    { f \in { [frames |-> (k * CHUNK_DURATION_SEC + o) * r + d, rate |-> r] :
                 r \in ContextRates,
                 k \in 0..MaxWindows,
                 o \in {0, OVERLAP_SEC, 330},
                 d \in (0 - MaxSkew)..MaxSkew } :
        f.frames >= f.rate }

Min(a, b) == IF a < b THEN a ELSE b

Max(a, b) == IF a > b THEN a ELSE b

\* the length of the OfflineAudioContext, audioBuffer.duration *
\* TARGET_SAMPLE_RATE as an unsigned long: frames * 16000 / rate, its
\* fraction cut off (computed without leaving 32 bits)
resampledLength(f) ==
    (f.frames \div f.rate) * TARGET_SAMPLE_RATE
        + ((f.frames % f.rate) * TARGET_SAMPLE_RATE) \div f.rate

\* Math.ceil(totalDuration / CHUNK_DURATION_SEC), totalDuration the
\* duration of the decoded AudioBuffer, frames / rate
totalChunkCount(f) ==
    (f.frames + CHUNK_DURATION_SEC * f.rate - 1)
        \div (CHUNK_DURATION_SEC * f.rate)

\* pcmData.slice(startSample, endSample).length
sliceLength(startSample, endSample, totalSamples) ==
    Max(0, Min(endSample, totalSamples) - Min(startSample, totalSamples))

\* processAudioFile: the chunk list of a recording.  `blob` is the number
\* of samples of the chunk's WAV (slice.length); the chunk's endTime is
\* startTime + blob / TARGET_SAMPLE_RATE, see endTime below.
processAudioFile(f) ==
    LET totalSamples   == resampledLength(f)
        chunkSamples   == CHUNK_DURATION_SEC * TARGET_SAMPLE_RATE
        overlapSamples == OVERLAP_SEC * TARGET_SAMPLE_RATE
    IN  [k \in 1..totalChunkCount(f) |->
            LET startSample == (k - 1) * chunkSamples
                endSample   == Min(startSample + chunkSamples + overlapSamples,
                                   totalSamples)
            IN  [blob        |-> sliceLength(startSample, endSample,
                                             totalSamples),
                 startTime   |-> (k - 1) * CHUNK_DURATION_SEC,
                 index       |-> k - 1,
                 totalChunks |-> totalChunkCount(f)]]

\* a chunk's endTime, in samples of the target rate (seconds * 16000)
endTime(chunk) == chunk.startTime * TARGET_SAMPLE_RATE + chunk.blob

parseTimestampAsMinutesSeconds(ts) == ts[1] * 60 + ts[2]

\* parseTimestampToSeconds on the ':'-separated parts of a timestamp
parseTimestampToSeconds(ts) ==
    IF Len(ts) = 3 THEN ts[1] * 3600 + ts[2] * 60 + ts[3]
    ELSE IF Len(ts) = 2 THEN ts[1] * 60 + ts[2]
    ELSE 0

-----------------------------------------------------------------------------
(* The service's possible answers *)

\* lines the service may report, in chronological order:
\* 5 s (H:M:S form), 598 s, 605 s
CandLines ==
    << [start |-> <<0, 0, 5>>, end |-> <<0, 0, 7>>, text |-> "a"],
       [start |-> <<9, 58>>,   end |-> <<10, 1>>,   text |-> "b"],
       [start |-> <<10, 5>>,   end |-> <<10, 8>>,   text |-> "c"] >>

PickLines(S) ==
    LET F[k \in 0..Len(CandLines)] ==
            IF k = 0 THEN << >>
            ELSE IF k \in S THEN Append(F[k - 1], CandLines[k])
            ELSE F[k - 1]
    IN  F[Len(CandLines)]

Summaries == {"s1", "s2"}

\* ChunkResult values: chronological line lists of at most MaxLines lines
ChunkResults ==
    { [lines |-> PickLines(S), summary |-> s] :
        S \in {T \in SUBSET (1..Len(CandLines)) : Cardinality(T) <= MaxLines},
        s \in Summaries }

-----------------------------------------------------------------------------
(* Timeline reconciliation, processChunks lines 158-182 *)

chunkDurationLimit == 300

isLastChunkOffByOne(idx, audioChunks) == idx = Len(audioChunks)

\* i === audioChunks.length - 1
isLastChunk(idx, audioChunks) == idx = Len(audioChunks) - 1

\* the .map(): every returned line gets the next id and absolute times
mapLines(lines, chunk, firstId) ==
    [k \in 1..Len(lines) |->
        [id        |-> firstId + k - 1,
         startTime |-> chunk.startTime + parseTimestampToSeconds(lines[k].start),
         endTime   |-> chunk.startTime + parseTimestampToSeconds(lines[k].end),
         text      |-> lines[k].text]]

keepLineUnfiltered(line, chunk, last) == TRUE

\* the .filter() predicate
keepLine(line, chunk, last) ==
    LET relativeStart == line.startTime - chunk.startTime
    IN  IF last THEN TRUE ELSE relativeStart < chunkDurationLimit

validLines(lines, chunk, firstId, last) ==
    SelectSeq(mapLines(lines, chunk, firstId),
              LAMBDA l : keepLine(l, chunk, last))

\* currentSrtId at the start of processChunks
initialSrtId(startIndex, lines) ==
    IF startIndex > 0 THEN Len(lines) + 1 ELSE 1

initialRetriesFour == 3 + 1

initialRetriesOne == 3 - 2

initialRetriesTwo == 3 - 1

\* let retries = 3
initialRetries == 3

-----------------------------------------------------------------------------
(* History variable: what an observer of the run has seen.  No action's    *)
(* guard and no update of a program variable reads it.                     *)
HistInit ==
    [ attempts  |-> 0,        \* requests dispatched for chunk i in this pass
      firstSeg  |-> NoIndex,  \* chunk of the first request of this pass
      passKind  |-> "none",   \* how this pass began: "start" or "resume"
      passStart |-> NoIndex,  \* failedChunkIndex when the pass was resumed
      passCtx   |-> "",       \* contextSummaryRef when the pass began (kept
                              \* until the first request of the pass ends)
      preEdit   |-> FALSE,    \* context edited in this pass before its first request
      lineSeg   |-> << >>,    \* for each line of srtLines, the chunk it came from
      results   |-> << >>,    \* per chunk done in this run: [seg, lines], the
                              \* lines as mapped to absolute time, unfiltered
      returned  |-> [seg |-> NoIndex, summary |-> ""],
                              \* the chunk of the latest successful attempt
                              \* and the summary it returned, kept while
                              \* handleSummaryEdit has not been called
      iterLines |-> << >>,    \* srtLines when the iteration for chunk i began
      lineEdits |-> 0,        \* handleEditLine calls in this run
      ctxEdited |-> FALSE,    \* handleSummaryEdit called in this run
      abortSeg  |-> NoIndex,  \* chunk whose request was in flight when abort() ran
      abortReq  |-> FALSE,    \* a request was dispatched in this pass after abort()
      abortErr  |-> FALSE,    \* this pass ended in ERROR after abort()
      loops     |-> 0,        \* startProcessing / processChunks call chains
                              \* that have not returned
      requests  |-> 0,        \* transcribeChunk calls that have not settled
      counting  |-> FALSE,    \* the requests of each pass are counted (SpecPass)
      passRequests |-> 0 ]    \* if so, requests dispatched in this pass

\* a transcribeChunk call as it begins; `signal` is the abortSignal
\* argument: "none" (undefined), "live" or "aborted"
NewCall(signal) ==
    [ at         |-> "start",   \* "start": before the abort check of line 72;
                                \* "streaming": awaiting the stream or its
                                \* next chunk; "threw"; "returned"
      signal     |-> signal,
      fullText   |-> << >>,     \* fullText, as the list of the texts appended
      onChunk    |-> << >>,     \* the arguments of the onChunk calls so far
      onThinking |-> << >>,     \* the arguments of the onThinking calls so far
      err        |-> "",        \* the error thrown
      result     |-> << >>,     \* <<the value returned>>
      parts      |-> << >>,     \* (observation) the parts the loop has gone over
      fragments  |-> 0,         \* (observation) stream chunks received
      raised     |-> IF signal = "aborted" THEN "before dispatch" ELSE "no",
                                \* (observation) when abort() ran: "no",
                                \* "before dispatch" or "while streaming"
      raisedAt   |-> 0,         \* (observation) `fragments` when abort() ran
      raisedParts |-> 0,        \* (observation) Len(parts) when abort() ran
      dispatched |-> FALSE,     \* (observation) generateContentStream called
      ended      |-> FALSE ]    \* (observation) the stream ran to its end

\* Spec and SpecSegmenter take a call as one step from dispatch to outcome
NoCall == [NewCall("none") EXCEPT !.at = "none"]

Init ==
    /\ file = NoFile
    /\ description = FALSE
    /\ status = "IDLE"
    /\ chunks = << >>
    /\ currentChunkIndex = 0
    /\ srtLines = << >>
    /\ completed = FALSE
    /\ error = FALSE
    /\ contextSummary = ""
    /\ contextSummaryRef = ""
    /\ failedChunkIndex = NoIndex
    /\ abortCtl = "null"
    /\ pc = "idle"
    /\ i = 0
    /\ retries = 0
    /\ currentSrtId = 1
    /\ reqCtx = ""
    /\ hist = HistInit
    /\ call = NoCall

-----------------------------------------------------------------------------
(* History bookkeeping *)

\* a request for chunk idx carrying context ctx is dispatched
HistDispatch(h, idx, aborted) ==
    [h EXCEPT !.attempts = @ + 1,
              !.firstSeg = IF h.firstSeg = NoIndex THEN idx ELSE @,
              !.abortReq = @ \/ aborted,
              !.requests = @ + 1,
              !.passRequests = IF h.counting THEN @ + 1 ELSE @]

\* the transcribeChunk call in flight ends
HistResponse(h) ==
    [h EXCEPT !.passCtx = "", !.preEdit = FALSE, !.requests = @ - 1]

\* a call chain returns (or not): `returned` tells which
HistReturn(h, returned) ==
    [h EXCEPT !.loops = IF returned THEN @ - 1 ELSE @]

\* a run begins: the history of the earlier run is dropped, the call chains
\* and calls still pending are not
HistRun(h) ==
    [HistInit EXCEPT !.loops = h.loops, !.requests = h.requests,
                     !.counting = h.counting]

\* a pass of processChunks begins
HistPass(h, kind, failedIdx, ctx, lines) ==
    [h EXCEPT !.attempts = 0, !.firstSeg = NoIndex,
              !.passKind = kind, !.passStart = failedIdx, !.passCtx = ctx,
              !.preEdit = FALSE, !.iterLines = lines,
              !.abortSeg = NoIndex, !.abortReq = FALSE, !.abortErr = FALSE,
              !.passRequests = 0]

\* the iteration for the next chunk begins
HistIter(h, lines) == [h EXCEPT !.attempts = 0, !.iterLines = lines]

-----
(* UI handlers *)

\* resetState()
resetState ==
    /\ status' = "IDLE"
    /\ chunks' = << >>
    /\ srtLines' = << >>
    /\ completed' = FALSE
    /\ currentChunkIndex' = 0
    /\ contextSummaryRef' = ""
    /\ contextSummary' = ""
    /\ failedChunkIndex' = NoIndex

\* the file input is enabled only in IDLE
HandleFileChange ==
    /\ status = "IDLE"
    /\ \E D \in Durations : file' = D
    /\ error' = FALSE
    /\ resetState
    /\ hist' = HistRun(hist)
    /\ UNCHANGED << description, abortCtl, pc, i, retries, currentSrtId, reqCtx >>
    /\ UNCHANGED call

\* the instructions textarea is enabled only in IDLE
SetDescription ==
    /\ status = "IDLE"
    /\ description' = ~description
    /\ UNCHANGED << file, status, chunks, currentChunkIndex, srtLines, completed,
                    error, contextSummary, contextSummaryRef, failedChunkIndex,
                    abortCtl, pc, i, retries, currentSrtId, reqCtx, hist >>
    /\ UNCHANGED call

keptContextSummaryRef(ref) == ref

\* contextSummaryRef.current = "" of startProcessing
freshContextSummaryRef(ref) == ""

\* startProcessing up to `await processAudioFile`: the Start button (enabled
\* in IDLE) and the "Restart from beginning" button (rendered in ERROR)
StartProcessing ==
    /\ status \in {"IDLE", "ERROR"}
    /\ file # NoFile /\ description
    /\ error' = FALSE
    /\ completed' = FALSE
    /\ srtLines' = << >>
    /\ chunks' = << >>
    /\ currentChunkIndex' = 0
    /\ contextSummary' = ""
    /\ contextSummaryRef' = freshContextSummaryRef(contextSummaryRef)
    /\ failedChunkIndex' = NoIndex
    /\ status' = "DECODING"
    /\ pc' = "decoding"
    /\ hist' = [HistRun(hist) EXCEPT !.loops = @ + 1]
    /\ UNCHANGED << file, description, abortCtl, i, retries, currentSrtId, reqCtx >>
    /\ UNCHANGED call

-----------------------------------------------------------------------------
(* processChunks *)

\* the head of the for loop for index idx, up to `await blobToBase64`;
\* `aborted` is abortControllerRef.current.signal.aborted at that moment.
\* Leaving the loop (by its condition or by the break) runs lines 193-195.
LoopHead(idx, audioChunks, aborted) ==
    IF idx < Len(audioChunks) /\ ~aborted
    THEN /\ currentChunkIndex' = idx
         /\ i' = idx
         /\ pc' = "encode"
         /\ status' = "TRANSCRIBING"
         /\ UNCHANGED completed
    ELSE /\ completed' = TRUE
         /\ status' = "COMPLETED"
         /\ pc' = "idle"
         /\ i' = idx
         /\ UNCHANGED currentChunkIndex

\* processChunks(audioChunks, startIndex) from its call to its first await
ProcessChunksEntry(audioChunks, startIndex) ==
    /\ abortCtl' = "live"
    /\ currentSrtId' = initialSrtId(startIndex, srtLines)
    /\ LoopHead(startIndex, audioChunks, FALSE)

\* processAudioFile resolves; startProcessing goes on into processChunks
DecodeDone ==
    /\ pc = "decoding"
    /\ resampledLength(file) > 0
    /\ chunks' = processAudioFile(file)
    /\ ProcessChunksEntry(processAudioFile(file), 0)
    /\ hist' = HistReturn(HistPass(hist, "start", NoIndex, contextSummaryRef,
                                    srtLines),
                           pc' = "idle")
    /\ UNCHANGED << file, description, srtLines, error, contextSummary,
                    contextSummaryRef, failedChunkIndex, retries, reqCtx >>
    /\ UNCHANGED call

\* processAudioFile rejects (decodeAudioData throws)
DecodeFail ==
    /\ pc = "decoding"
    /\ error' = TRUE
    /\ status' = "ERROR"
    /\ pc' = "idle"
    /\ hist' = HistReturn(hist, TRUE)
    /\ UNCHANGED << file, description, chunks, currentChunkIndex, srtLines,
                    completed, contextSummary, contextSummaryRef,
                    failedChunkIndex, abortCtl, i, retries, currentSrtId,
                    reqCtx >>
    /\ UNCHANGED call

previousSummaryOfFirstRender(ref) == ""

\* the previousSummary argument of transcribeChunk: contextSummaryRef.current,
\* read when the call is made
previousSummary(ref) == ref

\* blobToBase64 resolves: retries = 3 and the first transcribeChunk call,
\* which reads contextSummaryRef.current and dispatches the request
EncodeDone ==
    /\ pc = "encode"
    /\ retries' = initialRetries
    /\ reqCtx' = previousSummary(contextSummaryRef)
    /\ pc' = "inflight"
    /\ hist' = HistDispatch(hist, i, abortCtl = "aborted")
    /\ UNCHANGED << appVars, abortCtl, i, currentSrtId >>
    /\ UNCHANGED call

\* transcribeChunk throws: the catch of the retry loop, and when the budget
\* is used up the outer catch of processChunks
AttemptFails ==
    /\ pc = "inflight"
    /\ retries' = retries - 1
    /\ IF retries - 1 = 0
       THEN /\ error' = TRUE
            /\ failedChunkIndex' = i
            /\ status' = "ERROR"
            /\ pc' = "idle"
            /\ hist' = [HistReturn(HistResponse(hist), TRUE) EXCEPT
                          !.abortErr = (abortCtl = "aborted")]
       ELSE /\ pc' = "backoff"
            /\ hist' = HistResponse(hist)
            /\ UNCHANGED << error, failedChunkIndex, status >>
    /\ reqCtx' = ""
    /\ UNCHANGED << file, description, chunks, currentChunkIndex, srtLines,
                    completed, contextSummary, contextSummaryRef, abortCtl, i,
                    currentSrtId >>
    /\ UNCHANGED call

\* the 2 s wait is over: the while condition holds, transcribeChunk again
BackoffDone ==
    /\ pc = "backoff"
    /\ reqCtx' = previousSummary(contextSummaryRef)
    /\ pc' = "inflight"
    /\ hist' = HistDispatch(hist, i, abortCtl = "aborted")
    /\ UNCHANGED << appVars, abortCtl, i, retries, currentSrtId >>
    /\ UNCHANGED call

replaceLines(prev, kept) == kept

\* setSrtLines(prev => [...prev, ...validLines])
appendLines(prev, kept) == prev \o kept

\* transcribeChunk returns `result`: lines 145-183, then the next loop head
AttemptSucceedsWith(result) ==
    /\ pc = "inflight"
    /\  LET chunk == chunks[i + 1]
             last  == isLastChunk(i, chunks)
             kept  == validLines(result.lines, chunk, currentSrtId, last)
             lines == appendLines(srtLines, kept)
         IN  /\ contextSummaryRef' = result.summary
             /\ contextSummary' = result.summary
             /\ failedChunkIndex' = NoIndex
             /\ currentSrtId' = currentSrtId + Len(result.lines)
             /\ srtLines' = lines
             /\ LoopHead(i + 1, chunks, abortCtl = "aborted")
             /\ hist' = [HistReturn(HistIter(HistResponse(hist), lines),
                                     pc' = "idle") EXCEPT
                           !.lineSeg = @ \o [k \in 1..Len(kept) |-> i],
                           !.results = Append(@,
                               [seg   |-> i,
                                lines |-> mapLines(result.lines, chunk,
                                                   currentSrtId)]),
                           !.returned = IF hist.ctxEdited THEN @
                                        ELSE [seg     |-> i,
                                              summary |-> result.summary]]
    /\ reqCtx' = ""
    /\ UNCHANGED << file, description, chunks, error, abortCtl, retries >>

\* ... whatever document of the schema's shape the service has sent
AttemptSucceeds ==
    /\ \E result \in ChunkResults : AttemptSucceedsWith(result)
    /\ UNCHANGED call

resumeIndexZero(cur) == 0

resumeIndexBeforeFailed(cur) == IF cur > 0 THEN cur - 1 ELSE 0

resumeIndexAfterFailed(cur) == cur + 1

\* the start index resumeFromCurrent hands to processChunks
resumeIndex(cur) == cur

retryEnabledWithoutChunks(st, audioChunks) == st = "ERROR"

retryEnabledInAnyStatus(st, audioChunks) == Len(audioChunks) # 0

\* the "Retry chunk" button is rendered in ERROR, disabled without chunks
\* (and resumeFromCurrent returns at once without chunks)
retryEnabled(st, audioChunks) == st = "ERROR" /\ Len(audioChunks) # 0

\* resumeFromCurrent: the "Retry chunk" button
ResumeFromCurrent ==
    /\ retryEnabled(status, chunks)
    /\ failedChunkIndex' = NoIndex
    /\ error' = FALSE
    /\ ProcessChunksEntry(chunks, resumeIndex(currentChunkIndex))
    /\ hist' = [HistPass(hist, "resume", failedChunkIndex, contextSummaryRef,
                         srtLines)
                  EXCEPT !.loops = IF pc' = "idle" THEN @ ELSE @ + 1]
    /\ UNCHANGED << file, description, chunks, srtLines, contextSummary,
                    contextSummaryRef, retries, reqCtx >>
    /\ UNCHANGED call

\* the Cancel button, rendered in ERROR: abortControllerRef.current?.abort()
Cancel ==
    /\ status = "ERROR"
    /\ abortCtl' = IF abortCtl = "null" THEN "null" ELSE "aborted"
    /\ UNCHANGED << appVars, pc, i, retries, currentSrtId, reqCtx, hist >>
    /\ UNCHANGED call

UserContexts == {"u"}

\* handleSummaryEdit: the summary textarea is rendered outside ERROR, in
\* TRANSCRIBING or COMPLETED or when the summary is non-empty
HandleSummaryEdit ==
    /\ status # "ERROR"
    /\ status \in {"TRANSCRIBING", "COMPLETED"} \/ contextSummary # ""
    /\ \E value \in UserContexts :
         /\ contextSummary' = value
         /\ contextSummaryRef' = value
    /\ hist' = [hist EXCEPT !.ctxEdited = TRUE,
                            !.returned = HistInit.returned,
                            !.preEdit = @ \/ (pc = "encode"
                                               /\ hist.firstSeg = NoIndex)]
    /\ UNCHANGED << file, description, status, chunks, currentChunkIndex,
                    srtLines, completed, error, failedChunkIndex, abortCtl, pc,
                    i, retries, currentSrtId, reqCtx >>
    /\ UNCHANGED call

UserTexts == {"e"}

\* handleEditLine: one textarea per rendered line, outside ERROR
HandleEditLine ==
    /\ status \in {"DECODING", "TRANSCRIBING", "COMPLETED"}
    /\ hist.lineEdits < MaxLineEdits
    /\ \E k \in 1..Len(srtLines), newText \in UserTexts :
         srtLines' = [n \in 1..Len(srtLines) |->
                        IF srtLines[n].id = srtLines[k].id
                        THEN [srtLines[n] EXCEPT !.text = newText]
                        ELSE srtLines[n]]
    /\ hist' = [hist EXCEPT !.lineEdits = @ + 1]
    /\ UNCHANGED << file, description, status, chunks, currentChunkIndex,
                    completed, error, contextSummary, contextSummaryRef,
                    failedChunkIndex, abortCtl, pc, i, retries, currentSrtId,
                    reqCtx >>
    /\ UNCHANGED call

-----------------------------------------------------------------------------
Next ==
    \/ HandleFileChange
    \/ SetDescription
    \/ StartProcessing
    \/ DecodeDone
    \/ DecodeFail
    \/ EncodeDone
    \/ AttemptFails
    \/ BackoffDone
    \/ AttemptSucceeds
    \/ ResumeFromCurrent
    \/ Cancel
    \/ HandleSummaryEdit
    \/ HandleEditLine

Spec == Init /\ [][Next]_vars

-----------------------------------------------------------------------------
(* The abort signal as an external input of the pipeline (spec 4.4: "an    *)
(* external abort signal"): abortControllerRef.current.abort() while a     *)
(* pass of processChunks is suspended at one of its awaits.  The UI of     *)
(* part_004 renders its Cancel button in ERROR only, when no pass is       *)
(* running, so Spec never takes this step; SpecSignal does.                *)
AbortSignal ==
    /\ pc \in {"encode", "inflight", "backoff"}
    /\ abortCtl = "live"
    /\ abortCtl' = "aborted"
    /\ hist' = [hist EXCEPT !.abortSeg = IF pc = "inflight" THEN i ELSE @]
    /\ UNCHANGED << appVars, pc, i, retries, currentSrtId, reqCtx >>
    /\ UNCHANGED call

NextSignal ==
    \/ Next
    \/ AbortSignal

SpecSignal == Init /\ [][NextSignal]_vars

-----------------------------------------------------------------------------
(* transcribeChunk step by step (src/services/geminiService.ts).  A text   *)
(* is the list of the pieces it is made of; the pieces are "L", which      *)
(* stands for the document's text up to the end of its lines, "S", which   *)
(* stands for the rest with the summary, and the empty string.  The API    *)
(* key is set.                                                             *)

\* most stream chunks in one response
MaxFragments == 2

\* the one text that is a document of the response schema, and its value
Document == << "L", "S" >>

DocumentValue == [lines |-> PickLines({1}), summary |-> "s1"]

\* JSON.parse: <<value>>, or << >> for a SyntaxError
JSONparse(text) == IF text = Document THEN << DocumentValue >> ELSE << >>

\* chunk.candidates?.[0]?.content?.parts of a stream chunk
Parts == [thought : BOOLEAN, text : {"", "L", "S"}]

StreamChunks ==
    {<< >>} \cup {<< p >> : p \in Parts} \cup {<< p, q >> : p, q \in Parts}

abortIgnored(signal) == FALSE

\* abortSignal?.aborted
abortObserved(signal) == signal = "aborted"

throw(c, e) == [c EXCEPT !.at = "threw", !.err = e]

\* the body of `for (const part of parts)` in the file of the same name
\* that App does not import (part_001): part.thought goes to onThinking
\* and the text of every part goes to fullText
consumePartWithoutContinue(c, part) ==
    LET t == IF part.thought THEN [c EXCEPT !.onThinking = Append(@, "true")]
                             ELSE c
    IN  IF part.text # ""
        THEN [t EXCEPT !.fullText = Append(@, part.text),
                       !.onChunk = Append(@, part.text),
                       !.parts = Append(@, part)]
        ELSE [t EXCEPT !.parts = Append(@, part)]

\* the body of `for (const part of parts)`
consumePart(c, part) ==
    IF part.thought /\ part.text # ""
    THEN [c EXCEPT !.onThinking = Append(@, part.text),
                   !.parts = Append(@, part)]
    ELSE IF part.text # ""
    THEN [c EXCEPT !.fullText = Append(@, part.text),
                   !.onChunk = Append(@, part.text),
                   !.parts = Append(@, part)]
    ELSE [c EXCEPT !.parts = Append(@, part)]

\* the body of `for await (const chunk of response)` for one stream chunk
consumeChunk(c, parts) ==
    LET F[k \in 0..Len(parts)] ==
            IF k = 0 THEN c ELSE consumePart(F[k - 1], parts[k])
    IN  IF abortObserved(c.signal)
        THEN throw(c, "Transcription aborted by user")
        ELSE F[Len(parts)]

streamEndWithoutEmptyCheck(c) ==
    IF JSONparse(c.fullText) = << >>
    THEN throw(c, "SyntaxError")
    ELSE [c EXCEPT !.at = "returned", !.result = JSONparse(c.fullText)]

\* after the loop: the empty check and JSON.parse
streamEnd(c) ==
    IF c.fullText = << >> THEN throw(c, "No response text generated")
    ELSE IF JSONparse(c.fullText) = << >> THEN throw(c, "SyntaxError")
    ELSE [c EXCEPT !.at = "returned", !.result = JSONparse(c.fullText)]

\* from the call to `await ai.models.generateContentStream`
CallDispatch ==
    /\ call.at = "start"
    /\ call' = IF abortObserved(call.signal)
               THEN throw(call, "Transcription aborted by user")
               ELSE [call EXCEPT !.at = "streaming", !.dispatched = TRUE]
    /\ UNCHANGED << appVars, abortCtl, pc, i, retries, currentSrtId, reqCtx,
                    hist >>

\* the stream yields a chunk
CallFragment ==
    /\ call.at = "streaming"
    /\ call.fragments < MaxFragments
    /\ \E parts \in StreamChunks :
         call' = [consumeChunk(call, parts) EXCEPT !.fragments = @ + 1]
    /\ UNCHANGED << appVars, abortCtl, pc, i, retries, currentSrtId, reqCtx,
                    hist >>

\* the stream is done
CallStreamEnd ==
    /\ call.at = "streaming"
    /\ call' = [streamEnd(call) EXCEPT !.ended = TRUE]
    /\ UNCHANGED << appVars, abortCtl, pc, i, retries, currentSrtId, reqCtx,
                    hist >>

\* generateContentStream or the stream rejects (network, service error)
CallStreamFails ==
    /\ call.at = "streaming"
    /\ call' = throw(call, "NetworkError")
    /\ UNCHANGED << appVars, abortCtl, pc, i, retries, currentSrtId, reqCtx,
                    hist >>

\* the owner of the signal calls abort() while the call is pending
CallAbort ==
    /\ call.at \in {"start", "streaming"}
    /\ call.signal = "live"
    /\ call' = [call EXCEPT !.signal = "aborted",
                            !.raised = IF call.at = "start"
                                       THEN "before dispatch"
                                       ELSE "while streaming",
                            !.raisedAt = call.fragments,
                            !.raisedParts = Len(call.parts)]
    /\ UNCHANGED << appVars, abortCtl, pc, i, retries, currentSrtId, reqCtx,
                    hist >>

\* processChunks catches what the call threw
CatchThrow ==
    /\ call.at = "threw"
    /\ AttemptFails

\* processChunks goes on with what the call returned
TakeResult ==
    /\ call.at = "returned"
    /\ AttemptSucceedsWith(call.result[1])
    /\ UNCHANGED call

\* processChunks has made its first transcribeChunk call for the one chunk
\* of a 450 s recording
InitTranscribe ==
    /\ file = Recording(450, 48000)
    /\ description = TRUE
    /\ status = "TRANSCRIBING"
    /\ chunks = processAudioFile(Recording(450, 48000))
    /\ currentChunkIndex = 0
    /\ srtLines = << >>
    /\ completed = FALSE
    /\ error = FALSE
    /\ contextSummary = ""
    /\ contextSummaryRef = ""
    /\ failedChunkIndex = NoIndex
    /\ abortCtl = "live"
    /\ pc = "inflight"
    /\ i = 0
    /\ retries = initialRetries
    /\ currentSrtId = 1
    /\ reqCtx = previousSummary("")
    /\ hist = HistDispatch(HistPass([HistInit EXCEPT !.loops = 1], "start",
                                    NoIndex, "", << >>), 0, FALSE)
    /\ call \in {NewCall(signal) : signal \in {"none", "live", "aborted"}}

NextTranscribe ==
    \/ CallDispatch
    \/ CallFragment
    \/ CallStreamEnd
    \/ CallStreamFails
    \/ CallAbort
    \/ CatchThrow
    \/ TakeResult

SpecTranscribe == InitTranscribe /\ [][NextTranscribe]_vars

-----------------------------------------------------------------------------
(* The segmenter alone: startProcessing has been called on a recording of  *)
(* EdgeRecordings and waits for processAudioFile.                          *)
InitSegmenter ==
    /\ file \in EdgeRecordings
    /\ description = TRUE
    /\ status = "DECODING"
    /\ chunks = << >>
    /\ currentChunkIndex = 0
    /\ srtLines = << >>
    /\ completed = FALSE
    /\ error = FALSE
    /\ contextSummary = ""
    /\ contextSummaryRef = ""
    /\ failedChunkIndex = NoIndex
    /\ abortCtl = "null"
    /\ pc = "decoding"
    /\ i = 0
    /\ retries = 0
    /\ currentSrtId = 1
    /\ reqCtx = ""
    /\ hist = [HistInit EXCEPT !.loops = 1]
    /\ call = NoCall

NextSegmenter ==
    \/ DecodeDone
    \/ DecodeFail

SpecSegmenter == InitSegmenter /\ [][NextSegmenter]_vars

-----------------------------------------------------------------------------
(* Vocabulary of the properties *)

\* the nominal window length W
W == CHUNK_DURATION_SEC

IsFinalSeg(seg) == seg = Len(chunks) - 1

SegStart(seg) == chunks[seg + 1].startTime

\* two lines that agree in everything but the (user-editable) text
SameButText(a, b) ==
    a.id = b.id /\ a.startTime = b.startTime /\ a.endTime = b.endTime

SameLinesButText(xs, ys) ==
    /\ Len(xs) = Len(ys)
    /\ \A k \in 1..Len(xs) : SameButText(xs[k], ys[k])

Accumulated(l) == \E k \in 1..Len(srtLines) : SameButText(srtLines[k], l)

LineSegOk == Len(hist.lineSeg) = Len(srtLines)

\* C1: every line a non-final segment returns with a start offset below W
\* is appended to srtLines.
C1_LinesBelowWindowKept ==
    \A n \in 1..Len(hist.results) :
        LET r == hist.results[n] IN
        ~IsFinalSeg(r.seg) =>
            \A k \in 1..Len(r.lines) :
                r.lines[k].startTime - SegStart(r.seg) < W
                    => Accumulated(r.lines[k])

\* C2: every accumulated line that came from a non-final segment starts
\* less than W after that segment's start.
C2_NoOverlapLineKept ==
    /\ LineSegOk
    /\ \A k \in 1..Len(srtLines) :
          ~IsFinalSeg(hist.lineSeg[k]) =>
              srtLines[k].startTime - SegStart(hist.lineSeg[k]) < W

\* a non-final segment returned a line at or after W and also a line that
\* was accumulated
C2_Witness ==
    /\ \E n \in 1..Len(hist.results) :
          LET r == hist.results[n] IN
          /\ ~IsFinalSeg(r.seg)
          /\ \E k \in 1..Len(r.lines) :
                r.lines[k].startTime - SegStart(r.seg) >= W
          /\ \E k \in 1..Len(srtLines) : hist.lineSeg[k] = r.seg

\* C3: once the final segment has been transcribed, srtLines ends with all
\* the lines of its result, in order, whatever their offsets.
C3_FinalSegmentKeepsAll ==
    \A n \in 1..Len(hist.results) :
        LET r == hist.results[n]
            m == Len(r.lines)
        IN  IsFinalSeg(r.seg) =>
              /\ Len(srtLines) >= m
              /\ SameLinesButText(
                   SubSeq(srtLines, Len(srtLines) - m + 1, Len(srtLines)),
                   r.lines)

\* the final segment of a three-segment recording returned a line at or
\* after W
C3_Witness ==
    /\ Len(chunks) > 1
    /\ \E n \in 1..Len(hist.results) :
          LET r == hist.results[n] IN
          /\ IsFinalSeg(r.seg)
          /\ \E k \in 1..Len(r.lines) :
                r.lines[k].startTime - SegStart(r.seg) >= W

\* C4: when the run is Completed, the ids of srtLines are 1..N in
\* accumulation order.
C4_IdsContiguousWhenCompleted ==
    status = "COMPLETED" =>
        \A k \in 1..Len(srtLines) : srtLines[k].id = k

\* C5: no two lines of srtLines share an id.
C5_IdsUnique ==
    \A j, k \in 1..Len(srtLines) :
        j # k => srtLines[j].id # srtLines[k].id

\* C6: a run that is Failed at chunk k dispatched exactly 3 requests for
\* chunk k in the pass that failed, has its cursor and its recorded failing
\* index at k, and holds exactly the lines it held when the iteration for
\* chunk k began, all of them from chunks before k.
C6_ThreeAttemptsThenFailed ==
    (status = "ERROR" /\ failedChunkIndex # NoIndex) =>
        /\ hist.attempts = 3
        /\ retries = 0
        /\ failedChunkIndex = i
        /\ currentChunkIndex = failedChunkIndex
        /\ SameLinesButText(srtLines, hist.iterLines)
        /\ LineSegOk
        /\ \A k \in 1..Len(srtLines) : hist.lineSeg[k] < failedChunkIndex
        /\ Len(hist.results) = failedChunkIndex

\* the last chunk of three failed, with lines of the earlier chunks held
C6_Witness ==
    /\ status = "ERROR"
    /\ failedChunkIndex = 2
    /\ Len(srtLines) >= 2

\* a resumed pass that has not dispatched a request yet
ResumedNotDispatched ==
    pc = "encode" /\ hist.passKind = "resume" /\ hist.firstSeg = NoIndex

\* the first request of a resumed pass is in flight
ResumedFirstInFlight ==
    /\ pc = "inflight" /\ hist.passKind = "resume"
    /\ hist.attempts = 1 /\ hist.firstSeg = i

\* C7 as claimed: after a resume from Failed at chunk k, srtLines is as it
\* was, the first request is for chunk k, and it carries the context that
\* was current at the moment of the resume.
C7_ResumeCarriesContextAtResume ==
    /\ ResumedNotDispatched =>
          /\ i = hist.passStart
          /\ SameLinesButText(srtLines, hist.iterLines)
    /\ ResumedFirstInFlight =>
          /\ i = hist.passStart
          /\ reqCtx = hist.passCtx

\* C7 as amended: ... and it carries the context that is current when the
\* request is dispatched: the context at the moment of the resume, unless
\* the user edited the summary between the resume and the dispatch, and
\* then the edited value.
C7_ResumeCarriesContextAtDispatch ==
    /\ ResumedNotDispatched =>
          /\ i = hist.passStart
          /\ status = "TRANSCRIBING"
          /\ SameLinesButText(srtLines, hist.iterLines)
    /\ ResumedFirstInFlight =>
          /\ i = hist.passStart
          /\ IF hist.preEdit THEN reqCtx \in UserContexts
                             ELSE reqCtx = hist.passCtx

\* resumed at chunk 1 with lines held; the request carries chunk 0's summary
C7_Witness ==
    /\ ResumedFirstInFlight
    /\ i = 1
    /\ ~hist.preEdit
    /\ reqCtx \in Summaries
    /\ Len(srtLines) > 0

\* What processChunks(chunks, 0) accumulates when no attempt fails and the
\* service gives, chunk by chunk, the answers recorded in hist.results
\* (a deterministic service gives the same answers to the same requests):
\* currentSrtId starts at 1 and advances over every returned line.
NeverFailedLines ==
    LET res == hist.results
        Returned[n \in 0..Len(res)] ==
            IF n = 0 THEN 0 ELSE Returned[n - 1] + Len(res[n].lines)
        Kept(n) ==
            SelectSeq([k \in 1..Len(res[n].lines) |->
                          [res[n].lines[k] EXCEPT !.id = Returned[n - 1] + k]],
                      LAMBDA l : keepLine(l, chunks[res[n].seg + 1],
                                          isLastChunk(res[n].seg, chunks)))
        Acc[n \in 0..Len(res)] ==
            IF n = 0 THEN << >> ELSE Acc[n - 1] \o Kept(n)
    IN  Acc[Len(res)]

\* C8: without user edits, a run that failed, was resumed and completed
\* holds the same srtLines, field by field, as the run that never failed.
C8_ResumedRunEqualsNeverFailed ==
    ( /\ status = "COMPLETED"
      /\ hist.passKind = "resume"
      /\ ~hist.ctxEdited
      /\ hist.lineEdits = 0 )
    => srtLines = NeverFailedLines

-----------------------------------------------------------------------------
(* Properties of the abort signal, checked under SpecSignal *)

\* C9: once abort() has run while chunk k's request was in flight and the
\* pass has ended, srtLines holds lines of chunks before k only, the cursor
\* is k, and the status is neither ERROR nor COMPLETED.
C9_AbortInFlightPauses ==
    (hist.abortSeg # NoIndex /\ pc = "idle") =>
        /\ \A n \in 1..Len(hist.lineSeg) : hist.lineSeg[n] < hist.abortSeg
        /\ currentChunkIndex = hist.abortSeg
        /\ status \notin {"ERROR", "COMPLETED"}

\* C10: after abort() no request is dispatched in that pass, and the pass
\* does not end in ERROR.
C10_NoRequestAfterAbort ==
    /\ ~hist.abortReq
    /\ ~hist.abortErr

-----------------------------------------------------------------------------
(* Properties of the run as a whole *)

\* C11: whatever the operator does (start, resume, restart, cancel, context
\* edit, line edit) between the steps of the loop, at most one call chain
\* of startProcessing / processChunks is pending, at most one
\* transcribeChunk call is unsettled, and a call is unsettled only while
\* the one chain waits for it.
C11_OneLoopOneRequest ==
    /\ hist.loops \in {0, 1}
    /\ hist.requests \in {0, 1}
    /\ hist.loops = 1 <=> pc # "idle"
    /\ hist.requests = 1 <=> pc = "inflight"

\* a resumed pass has a request in flight after a context edit
\* and a line edit
C11_Witness ==
    /\ hist.requests = 1
    /\ hist.passKind = "resume"
    /\ hist.ctxEdited
    /\ hist.lineEdits > 0

\* C12: in a run without a context edit, a request for chunk 0 carries the
\* empty context, and a request for chunk i > 0 (first attempt or retry, in
\* the first pass or a resumed one) carries the summary that the successful
\* attempt for chunk i - 1 returned.
C12_RequestCarriesPreviousSummary ==
    (pc = "inflight" /\ ~hist.ctxEdited) =>
        IF i = 0
        THEN reqCtx = ""
        ELSE /\ hist.returned.seg = i - 1
             /\ reqCtx = hist.returned.summary

\* a retry for chunk 2 in a resumed pass carries chunk 1's summary
C12_Witness ==
    /\ pc = "inflight" /\ ~hist.ctxEdited
    /\ i = 2
    /\ hist.passKind = "resume"
    /\ hist.attempts = 2
    /\ hist.returned.seg = 1
    /\ reqCtx \in Summaries

\* C13: when the request in flight settles, a context the user has written
\* since that request was dispatched (the current context is then not the
\* one the request carries) stays the current context, the one the next
\* request will carry: the summary the request returns does not replace it.
C13_EditNotOverwritten ==
    [][ (pc = "inflight" /\ pc' # "inflight"
           /\ contextSummaryRef # reqCtx)
        => contextSummaryRef' = contextSummaryRef ]_vars

\* every chunk of the run has had a successful attempt, in index order, and
\* every line held came out of the reconciliation of one of them
AllChunksDone ==
    /\ Len(chunks) > 0
    /\ Len(hist.results) = Len(chunks)
    /\ \A n \in 1..Len(chunks) : hist.results[n].seg = n - 1
    /\ LineSegOk
    /\ \A k \in 1..Len(srtLines) :
          \E m \in 1..Len(hist.results[hist.lineSeg[k] + 1].lines) :
              SameButText(srtLines[k],
                          hist.results[hist.lineSeg[k] + 1].lines[m])

C17_IdOrderIsTimeOrder ==
    (~hist.ctxEdited /\ hist.lineEdits = 0) =>
        \A j, k \in 1..Len(srtLines) :
            srtLines[j].id < srtLines[k].id
                => srtLines[j].startTime <= srtLines[k].startTime

-----------------------------------------------------------------------------
(* Properties of the segmenter, checked under SpecSegmenter.  Lengths are  *)
(* in samples of the target rate.  The code has two measures of the        *)
(* recording's duration D: audioBuffer.duration (frames / rate), from      *)
(* which it takes the chunk count, and the length of the resampled PCM,    *)
(* from which it cuts the slices.  A property about D is taken to hold if  *)
(* it holds for either measure.                                            *)

Ceil(a, b) == (a + b - 1) \div b

chunkSamples == CHUNK_DURATION_SEC * TARGET_SAMPLE_RATE

\* audioBuffer.duration is a whole number of samples of the target rate
DurationExact(f) == ((f.frames % f.rate) * TARGET_SAMPLE_RATE) % f.rate = 0

\* the measures of D there are for the picked file: <<D in samples,
\* ceil(D / W)>>
DurationMeasures ==
    (IF DurationExact(file)
     THEN {<< resampledLength(file), totalChunkCount(file) >>}
     ELSE {})
    \cup {<< resampledLength(file),
             Ceil(resampledLength(file), chunkSamples) >>}

\* C15: the chunk list of a recording of duration D > 0 has ceil(D / W)
\* chunks, each with totalChunks equal to that number, and its last
\* chunk's endTime is D.
C15_CountAndLastEnd ==
    chunks # << >> =>
        \E m \in DurationMeasures :
            /\ Len(chunks) = m[2]
            /\ \A k \in 1..Len(chunks) : chunks[k].totalChunks = m[2]
            /\ endTime(chunks[Len(chunks)]) = m[1]

\* seconds as samples of the target rate
Samples(seconds) == seconds * TARGET_SAMPLE_RATE

\* the chunk list as <<startTime, endTime>> pairs, in samples
Spans == [k \in 1..Len(chunks) |->
            << Samples(chunks[k].startTime), endTime(chunks[k]) >>]

\* C16: chunk i has index i, startTime i * W and endTime
\* min(D, i * W + W + O); consecutive chunks overlap by at most O; every
\* chunk has startTime < endTime <= D; and a 1530 s recording gives
\* [0, 610), [600, 1210), [1200, 1530).
C16_ChunkBounds ==
    chunks # << >> =>
        /\ \E m \in DurationMeasures :
              \A k \in 1..Len(chunks) :
                  /\ chunks[k].index = k - 1
                  /\ chunks[k].startTime = (k - 1) * W
                  /\ endTime(chunks[k])
                        = Min(m[1], Samples((k - 1) * W + W + OVERLAP_SEC))
                  /\ Samples(chunks[k].startTime) < endTime(chunks[k])
                  /\ endTime(chunks[k]) <= m[1]
        /\ \A k \in 1..(Len(chunks) - 1) :
              endTime(chunks[k]) - Samples(chunks[k + 1].startTime)
                  <= Samples(OVERLAP_SEC)
        /\ file.frames = 1530 * file.rate =>
              Spans = << << Samples(0), Samples(610) >>,
                         << Samples(600), Samples(1210) >>,
                         << Samples(1200), Samples(1530) >> >>

-----------------------------------------------------------------------------
(* Properties of transcribeChunk, checked under SpecTranscribe *)

Texts(ps) == [k \in 1..Len(ps) |-> ps[k].text]

\* the texts of the reasoning parts (flagged as thought) received so far
ReasoningTexts ==
    Texts(SelectSeq(call.parts, LAMBDA p : p.thought /\ p.text # ""))

\* the texts of the content parts received so far
ContentTexts ==
    Texts(SelectSeq(call.parts, LAMBDA p : ~p.thought /\ p.text # ""))

\* C18: the texts of the reasoning parts have gone to onThinking, in order,
\* and nowhere else; fullText is the texts of the content parts in the
\* order of arrival, and onChunk has been called with each of them in that
\* order; what is returned is that text parsed, and a SyntaxError is the
\* failure to parse that text.
C18_ReasoningApartContentInOrder ==
    /\ call.onThinking = ReasoningTexts
    /\ call.fullText = ContentTexts
    /\ call.onChunk = ContentTexts
    /\ call.at = "returned" =>
          /\ call.result # << >>
          /\ call.result = JSONparse(ContentTexts)
    /\ call.err = "SyntaxError" => JSONparse(ContentTexts) = << >>

\* a call has returned the document after reasoning parts arrived between
\* and before its two pieces
C18_Witness ==
    /\ call.at = "returned"
    /\ call.result = << DocumentValue >>
    /\ Len(call.onThinking) >= 2
    /\ call.parts[1].thought
    /\ ~call.parts[Len(call.parts)].thought

\* the caller's state after the catch of the first failed attempt
FirstAttemptCaught ==
    /\ pc = "backoff"
    /\ retries = initialRetries - 1
    /\ status = "TRANSCRIBING"
    /\ ~error
    /\ failedChunkIndex = NoIndex
    /\ srtLines = << >>
    /\ contextSummaryRef = ""
    /\ contextSummary = ""
    /\ currentChunkIndex = 0

\* C19: a call whose stream ended with no content text (no part at all, or
\* thought parts only) has thrown "No response text generated" and returned
\* nothing; and whatever a call threw, the caller's catch leaves the same
\* state: one attempt used up, nothing accumulated, waiting to retry.
C19_EmptyBufferFails ==
    /\ (call.ended /\ ContentTexts = << >>) =>
          /\ call.at = "threw"
          /\ call.err = "No response text generated"
          /\ call.result = << >>
    /\ (call.at = "threw" /\ pc # "inflight") => FirstAttemptCaught
    /\ call.at = "threw" => pc \in {"inflight", "backoff"}

\* a stream of thought parts only has ended and the caller has caught the
\* error
C19_Witness ==
    /\ call.ended
    /\ Len(ReasoningTexts) > 0
    /\ ContentTexts = << >>
    /\ pc = "backoff"

Cancelled ==
    /\ call.at = "threw"
    /\ call.err = "Transcription aborted by user"
    /\ call.result = << >>

\* C20 as claimed: a call whose signal was raised before dispatch or at any
\* point before its stream ended has failed (with the cancellation error,
\* or with the error the stream or its end brought) and returned nothing.
C20_RaisedSignalNeverReturns ==
    (call.signal = "aborted" /\ call.at \in {"threw", "returned"}) =>
        /\ call.at = "threw"
        /\ call.err # ""
        /\ call.result = << >>

\* C20 as amended: a signal raised before dispatch makes the call fail with
\* the cancellation error without dispatching; a signal raised while
\* streaming makes it fail with the cancellation error at the next stream
\* chunk received, none of that chunk's parts consumed; a call returns a
\* result after its signal was raised only if no stream chunk was received
\* after that; and the cancellation error is thrown for a raised signal
\* only.
C20_SignalObservedAtDispatchAndFragments ==
    /\ (call.raised = "before dispatch" /\ call.at # "start") =>
          /\ Cancelled
          /\ ~call.dispatched
          /\ call.fragments = 0
    /\ call.raised = "while streaming" =>
          /\ call.fragments <= call.raisedAt + 1
          /\ call.fragments = call.raisedAt + 1 =>
                /\ Cancelled
                /\ Len(call.parts) = call.raisedParts
          /\ call.at = "returned" => call.fragments = call.raisedAt
    /\ call.err = "Transcription aborted by user" =>
          /\ call.signal = "aborted"
          /\ Cancelled

\* the signal was raised after the first stream chunk, whose parts were
\* consumed, and the call failed at the second
C20_Witness ==
    /\ call.raised = "while streaming"
    /\ call.raisedAt = 1
    /\ call.raisedParts > 0
    /\ call.fragments = 2
    /\ Cancelled

-----------------------------------------------------------------------------
(* Properties of restart, failure and the retry budget *)

\* the step of the "Restart from beginning" button
RestartStep == status = "ERROR" /\ status' = "DECODING"

\* the step that dispatches the first request of a run
FirstDispatchStep ==
    /\ pc = "encode" /\ pc' = "inflight"
    /\ hist.passKind = "start" /\ hist.firstSeg = NoIndex

\* the step in which the first successful attempt of a run is taken
FirstResultStep == Len(hist.results) = 0 /\ Len(hist'.results) = 1

\* what Restart leaves of the run before it: nothing
RunStateFresh ==
    /\ srtLines = << >>
    /\ chunks = << >>
    /\ currentChunkIndex = 0
    /\ contextSummaryRef = ""
    /\ contextSummary = ""
    /\ failedChunkIndex = NoIndex
    /\ ~error
    /\ ~completed

\* the first successful attempt of the run is for chunk 0 and its lines are
\* numbered from 1
FirstResultFromOne ==
    /\ hist.results[1].seg = 0
    /\ \A k \in 1..Len(hist.results[1].lines) :
          hist.results[1].lines[k].id = k

AttemptFailsStep == pc = "inflight" /\ hist'.requests < hist.requests
                       /\ Len(hist'.results) = Len(hist.results)

\* the step in which a transcribeChunk call returns its result
AttemptSucceedsStep == Len(hist'.results) = Len(hist.results) + 1

\* the lines of the latest result that the filter lets through
LatestKept ==
    LET r == hist.results[Len(hist.results)]
    IN  SelectSeq(r.lines,
                  LAMBDA l : keepLine(l, chunks[r.seg + 1],
                                      isLastChunk(r.seg, chunks)))

SegmentationFailed == status = "ERROR" /\ failedChunkIndex = NoIndex

\* C23: the run gets into the state "segmentation failed" from DECODING in
\* one step; in that state no chunk is stored, no line is held, no call
\* chain is pending (processAudioFile is not called again), no request has
\* been dispatched in the run, the "Retry chunk" button is disabled; and
\* every step taken in that state other than Restart leaves the run state
\* as it is.
C23_SegmentationFailureIsFinal ==
    [][ /\ (SegmentationFailed' /\ ~SegmentationFailed) =>
              status = "DECODING"
        /\ SegmentationFailed' =>
              /\ chunks' = << >>
              /\ srtLines' = << >>
              /\ pc' = "idle"
              /\ hist'.loops = 0
              /\ hist'.requests = 0
              /\ hist'.passKind = "none"
              /\ hist'.results = << >>
              /\ ~retryEnabled(status', chunks')
        /\ (SegmentationFailed /\ ~RestartStep) =>
              /\ UNCHANGED appVars
              /\ UNCHANGED << pc, hist >> ]_vars

\* a run restarted after a pass that had numbered lines failed in
\* processAudioFile
C23_Witness ==
    /\ SegmentationFailed
    /\ chunks = << >>
    /\ currentSrtId > 1

-----------------------------------------------------------------------------
(* Serialisation, src/utils/srtUtils.ts.  The SRT text is the list of its  *)
(* blocks, a block the record of its three lines; a timestamp              *)
(* "HH:MM:SS,mmm" is the tuple of its four numbers.                        *)

\* formatSRTTimestamp: characters 11..22 of the ISO string of the date
\* `seconds` after the epoch, the '.' made a ','
formatSRTTimestamp(seconds) ==
    << (seconds \div 3600) % 24, (seconds \div 60) % 60, seconds % 60,
       (seconds * 1000) % 1000 >>

\* generateSRTContent: lines.map((line, index) => ...), the block of the
\* line at (0-based) index numbered index + 1
generateSRTContent(lines) ==
    [n \in 1..Len(lines) |->
        [number |-> (n - 1) + 1,
         start  |-> formatSRTTimestamp(lines[n].startTime),
         end    |-> formatSRTTimestamp(lines[n].endTime),
         text   |-> lines[n].text]]

\* the seconds a timestamp "HH:MM:SS,mmm" of a block stands for
BlockSeconds(t) == t[1] * 3600 + t[2] * 60 + t[3]

\* the "Download .SRT" button is rendered
DownloadEnabled == completed

\* the text handleDownload hands to downloadSRT
Downloaded == generateSRTContent(srtLines)

\* the blocks are those of srtLines, one for one and in order: times and
\* text of the n-th block are those of the n-th line; numbered 1..N
OneBlockPerLine ==
    /\ Len(Downloaded) = Len(srtLines)
    /\ \A n \in 1..Len(srtLines) :
          /\ Downloaded[n].number = n
          /\ BlockSeconds(Downloaded[n].start) = srtLines[n].startTime
          /\ BlockSeconds(Downloaded[n].end) = srtLines[n].endTime
          /\ Downloaded[n].start[4] = 0 /\ Downloaded[n].end[4] = 0
          /\ Downloaded[n].text = srtLines[n].text

\* C24: what the user can download has exactly one block per line of
\* srtLines, in the order of srtLines, numbered 1, 2, ..., N, and the
\* number of each block is the id of the line it serialises.
C24_BlockNumberIsLineId ==
    DownloadEnabled =>
        /\ OneBlockPerLine
        /\ \A n \in 1..Len(srtLines) :
              Downloaded[n].number = srtLines[n].id

-----------------------------------------------------------------------------
(* Properties of the order of the requests and of what a failure leaves *)

\* the step in which a transcribeChunk call is made
DispatchStep == hist'.requests > hist.requests

\* the index a pass starts at
PassStartIndex == IF hist.passKind = "resume" THEN hist.passStart ELSE 0

\* the successful attempts of the run are one for each of the chunks
\* 0, 1, ..., in that order
OneSuccessPerChunk(h) ==
    \A n \in 1..Len(h.results) : h.results[n].seg = n - 1

\* the lines the successful attempts of the run have contributed: for each
\* result in turn, its lines that the filter lets through
ResultsKept ==
    LET res == hist.results
        Acc[n \in 0..Len(res)] ==
            IF n = 0 THEN << >>
            ELSE Acc[n - 1] \o
                 SelectSeq(res[n].lines,
                           LAMBDA l : keepLine(l, chunks[res[n].seg + 1],
                                               isLastChunk(res[n].seg, chunks)))
    IN  Acc[Len(res)]

\* C25: every request is for chunk i, dispatched when each of the chunks
\* 0..i-1 has had exactly one successful attempt and chunk i none; the
\* first request of a pass is for the index the pass starts at; while a
\* pass runs, i goes up by one with each successful attempt and not
\* otherwise; and srtLines is, over the whole run, the kept lines of
\* exactly one successful attempt per chunk, chunk after chunk in
\* increasing index order.
C25_SequentialOneSuccessPerChunk ==
    [][ /\ DispatchStep =>
              /\ i' = i
              /\ Len(hist.results) = i
              /\ OneSuccessPerChunk(hist)
              /\ hist.firstSeg = NoIndex => i = PassStartIndex
        /\ (pc \in {"encode", "inflight", "backoff"} /\ pc' # "idle") =>
              i' = IF AttemptSucceedsStep THEN i + 1 ELSE i
        /\ OneSuccessPerChunk(hist')
        /\ SameLinesButText(srtLines', ResultsKept')
        /\ Len(hist'.lineSeg) = Len(srtLines')
        /\ \A j, k \in 1..Len(hist'.lineSeg) :
              j < k => hist'.lineSeg[j] <= hist'.lineSeg[k] ]_vars

\* a pass resumed at chunk 1 has had chunk 1 succeed and has its request
\* for chunk 2 in flight, lines of chunk 0 and of chunk 1 held
C25_Witness ==
    /\ pc = "inflight"
    /\ hist.passKind = "resume"
    /\ hist.firstSeg = 1
    /\ i = 2
    /\ LineSegOk
    /\ \E j, k \in 1..Len(srtLines) :
          hist.lineSeg[j] = 0 /\ hist.lineSeg[k] = 1

\* a step of the pipeline (startProcessing / processChunks going on from
\* an await), as against a step of a UI handler
PipelineStep == pc # "idle" /\ pc' # pc

-----------------------------------------------------------------------------
(* The conversion to absolute time alone: processChunks has a request in   *)
(* flight for one of the three chunks of a 1530 s recording (the chunks    *)
(* before it gave no line), and transcribeChunk has returned one line      *)
(* whose offsets are written in either form.                               *)

\* offsets as the service writes them: M:S and H:M:S
Offsets ==
    { <<0, 0>>, <<4, 59>>, <<5, 0>>, <<5, 25>>, <<9, 58>>, <<10, 5>>,
      <<75, 30>>,
      <<0, 0, 5>>, <<0, 4, 59>>, <<0, 5, 25>>, <<0, 10, 5>>, <<1, 0, 0>>,
      <<1, 15, 30>> }

\* ChunkResult values of one line, its end not before its start
TimedResults ==
    { r \in { [lines |-> << [start |-> a, end |-> b, text |-> "a"] >>,
              summary |-> "s1"] : a \in Offsets, b \in Offsets } :
        parseTimestampToSeconds(r.lines[1].end)
            >= parseTimestampToSeconds(r.lines[1].start) }

InitTimestamps ==
    /\ file = Recording(1530, 48000)
    /\ description = TRUE
    /\ status = "TRANSCRIBING"
    /\ chunks = processAudioFile(Recording(1530, 48000))
    /\ i \in 0..(Len(chunks) - 1)
    /\ currentChunkIndex = i
    /\ srtLines = << >>
    /\ completed = FALSE
    /\ error = FALSE
    /\ contextSummary = (IF i = 0 THEN "" ELSE "s1")
    /\ contextSummaryRef = contextSummary
    /\ failedChunkIndex = NoIndex
    /\ abortCtl = "live"
    /\ pc = "inflight"
    /\ retries = initialRetries
    /\ currentSrtId = 1
    /\ reqCtx = previousSummary(contextSummaryRef)
    /\ hist = [HistDispatch(HistPass([HistInit EXCEPT !.loops = 1], "start",
                                     NoIndex, "", << >>), i, FALSE)
                 EXCEPT !.firstSeg = 0,
                        !.results = [n \in 1..i |->
                                        [seg |-> n - 1, lines |-> << >>]],
                        !.returned = IF i = 0 THEN HistInit.returned
                                     ELSE [seg |-> i - 1, summary |-> "s1"]]
    /\ \E result \in TimedResults :
          call = [NewCall("none") EXCEPT !.at = "returned",
                                         !.dispatched = TRUE,
                                         !.ended = TRUE,
                                         !.result = << result >>]

NextTimestamps == TakeResult

SpecTimestamps == InitTimestamps /\ [][NextTimestamps]_vars

\* the seconds an offset stands for: M:S is 60 M + S, H:M:S is
\* 3600 H + 60 M + S
OffsetSeconds(o) ==
    IF Len(o) = 2 THEN 60 * o[1] + o[2]
    ELSE 3600 * o[1] + 60 * o[2] + o[3]

\* the result of the call has been taken
ResultTaken == call.at = "returned" /\ pc # "inflight"

\* C27: once a result is taken, every line of srtLines is a line of that
\* result, came from the chunk the request was for, and has
\* startTime = that chunk's startTime + its start offset in seconds and
\* endTime = that chunk's startTime + its end offset in seconds, M:S read
\* as 60 M + S and H:M:S as 3600 H + 60 M + S.
C27_AbsoluteTimeFromOffsets ==
    ResultTaken =>
        LET raw == call.result[1].lines
            seg == hist.results[Len(hist.results)].seg
        IN  /\ LineSegOk
            /\ \A k \in 1..Len(srtLines) :
                  /\ hist.lineSeg[k] = seg
                  /\ srtLines[k].id \in 1..Len(raw)
                  /\ srtLines[k].startTime =
                        SegStart(seg) + OffsetSeconds(raw[srtLines[k].id].start)
                  /\ srtLines[k].endTime =
                        SegStart(seg) + OffsetSeconds(raw[srtLines[k].id].end)
                  /\ srtLines[k].text = raw[srtLines[k].id].text

\* the last chunk (from 1200 s) gave a line from 0:05:25 to 1:15:30: it is
\* held from 1525 s to 5730 s
C27_Witness ==
    /\ ResultTaken
    /\ Len(srtLines) = 1
    /\ hist.lineSeg[1] = 2
    /\ call.result[1].lines[1].start = <<0, 5, 25>>
    /\ call.result[1].lines[1].end = <<1, 15, 30>>
    /\ srtLines[1].startTime = 1525
    /\ srtLines[1].endTime = 5730

-----------------------------------------------------------------------------
(* Properties of the line edit and of the retry budget *)

\* the step of handleEditLine
LineEditStep == hist'.lineEdits = hist.lineEdits + 1

\* the positions of srtLines whose text the step changes
TextChanged ==
    { k \in 1..Len(srtLines) : srtLines'[k].text # srtLines[k].text }

\* C28: a step of handleEditLine, with a text the line does not have yet,
\* changes the text of exactly one line of srtLines and leaves the length
\* of srtLines and the id, startTime and endTime at every position as
\* they are.
C28_EditChangesOneLine ==
    [][ LineEditStep =>
          /\ SameLinesButText(srtLines, srtLines')
          /\ Cardinality(TextChanged) = 1 ]_vars

-----------------------------------------------------------------------------
(* The passes of processChunks alone, their requests counted: the user has *)
(* picked a recording and written the instructions, and starts, resumes    *)
(* and restarts.  Every await of a pass comes back: blobToBase64 resolves, *)
(* the 2 s timer fires, and every transcribeChunk call settles, one way or *)
(* the other.                                                              *)
InitPass ==
    /\ file \in Durations
    /\ description = TRUE
    /\ status = "IDLE"
    /\ chunks = << >>
    /\ currentChunkIndex = 0
    /\ srtLines = << >>
    /\ completed = FALSE
    /\ error = FALSE
    /\ contextSummary = ""
    /\ contextSummaryRef = ""
    /\ failedChunkIndex = NoIndex
    /\ abortCtl = "null"
    /\ pc = "idle"
    /\ i = 0
    /\ retries = 0
    /\ currentSrtId = 1
    /\ reqCtx = ""
    /\ hist = [HistInit EXCEPT !.counting = TRUE]
    /\ call = NoCall

NextPass ==
    \/ StartProcessing
    \/ DecodeDone
    \/ EncodeDone
    \/ AttemptFails
    \/ BackoffDone
    \/ AttemptSucceeds
    \/ ResumeFromCurrent

SpecPass ==
    /\ InitPass
    /\ [][NextPass]_vars
    /\ WF_vars(EncodeDone)
    /\ WF_vars(BackoffDone)
    /\ WF_vars(AttemptFails \/ AttemptSucceeds)

\* a pass of processChunks is under way
PassRunning == pc \in {"encode", "inflight", "backoff"}

\* no pass is under way and the last one ended in COMPLETED or in ERROR
PassEnded == pc = "idle" /\ status \in {"COMPLETED", "ERROR"}

\* the bound on the requests of a pass started at index s over n chunks
PassBudget == 3 * (Len(chunks) - PassStartIndex)

\* C29: (every transcribeChunk call settling) a pass started at index s
\* over n chunks never has dispatched more than 3 (n - s) requests, no
\* more than 3 (i - s) of them before it came to chunk i, and it ends, in
\* COMPLETED or in ERROR; the a-th request for a chunk in a pass (first
\* pass or resumed) goes out with retries = 3 - (a - 1), a <= 3; and a
\* pass ends in ERROR only with three failed requests for its last chunk,
\* in COMPLETED otherwise, every chunk done.
C29_PassBoundedAndEnds ==
    /\ [](hist.passKind # "none" =>
            /\ hist.passRequests <= PassBudget
            /\ PassRunning =>
                  hist.passRequests - hist.attempts <= 3 * (i - PassStartIndex)
            /\ pc = "inflight" =>
                  /\ hist.attempts \in 1..3
                  /\ retries = 3 - (hist.attempts - 1)
            /\ (PassEnded /\ status = "ERROR") =>
                  /\ hist.attempts = 3
                  /\ failedChunkIndex = i
            /\ (PassEnded /\ status = "COMPLETED") =>
                  /\ Len(hist.results) = Len(chunks)
                  /\ OneSuccessPerChunk(hist))
    /\ (PassRunning ~> PassEnded)

\* a pass resumed at chunk 1 of three has ended in COMPLETED with six
\* requests, the most it can have
C29_Witness ==
    /\ PassEnded
    /\ status = "COMPLETED"
    /\ hist.passKind = "resume"
    /\ PassStartIndex = 1
    /\ Len(chunks) = 3
    /\ hist.passRequests = PassBudget

====
